---- MODULE Spec2Model ----
(***************************************************************************)
(* A model of the BFV scheme of custom_fhe (bfv_scheme.py, polynomial.py,   *)
(* ciphertext.py, keys.py).                                                 *)
(*                                                                          *)
(* Polynomials are sequences of N integers (index 1 holds coefficient 0).   *)
(* The scheme parameters N, t, q_bits and sigma are constructor arguments;  *)
(* the model instantiates them with small values so that every coefficient  *)
(* can be enumerated.  With these values every intermediate of the int64    *)
(* arithmetic of numpy stays far below 2^63 and every float64 conversion is  *)
(* exact, so numpy's arithmetic coincides with integer arithmetic.          *)
(***************************************************************************)
EXTENDS Integers, Sequences, FiniteSets, TLC

----------------------------------------------------------------------------
(* Scheme parameters: BFVScheme.__init__(N, t, q_bits, sigma)               *)

\* ring degree of scheme instances 1 and 2
N == 2
\* ring degree of scheme instance 3 (used for batching: N \div 2 = 2 slots)
N_batch == 4
\* plaintext modulus of scheme instances 1 and 3
t == 5
\* plaintext modulus of scheme instance 2
t_other == 3
\* ciphertext modulus bit size
q_bits == 6
\* int(sigma) as used in sample_bounded(bound=6 * int(self.sigma))
sigma_int == 1

RECURSIVE Pow2(_)
Pow2(k) == IF k = 0 THEN 1 ELSE 2 * Pow2(k - 1)

\* self.q = 2**q_bits - 1
q_modulus == Pow2(q_bits) - 1

Instances == {1, 2, 3}

\* self.N, self.t, self.q of each instance; the dict
\* {'N': self.N, 't': self.t, 'q': self.q} attached to plaintexts/ciphertexts
params(i) ==
    [N |-> IF i = 3 THEN N_batch ELSE N,
     t |-> IF i = 2 THEN t_other ELSE t,
     q |-> q_modulus]

\* self.delta = self.q // self.t
delta(i) == params(i).q \div params(i).t

\* self.n_slots = N // 2
n_slots(i) == params(i).N \div 2

\* bound = 6 * int(self.sigma)
noise_bound == 6 * sigma_int

----------------------------------------------------------------------------
(* Optional values: None is the empty sequence, a set value x is <<x>>.     *)

None == << >>
Some(x) == << x >>
IsNone(o) == o = << >>
IsSome(o) == o # << >>
The(o) == o[1]

----------------------------------------------------------------------------
(* PolynomialRing (polynomial.py)                                           *)

RECURSIVE SumTo(_, _, _)
SumTo(f, lo, hi) == IF lo > hi THEN 0 ELSE f[lo] + SumTo(f, lo + 1, hi)

\* PolynomialRing.add: (a + b) % q
PolyAdd(a, b, q) == [i \in 1..Len(a) |-> (a[i] + b[i]) % q]

\* PolynomialRing.sub: (a - b) % q
PolySub(a, b, q) == [i \in 1..Len(a) |-> (a[i] - b[i]) % q]

\* PolynomialRing.mul_scalar: (a * scalar) % q
PolyMulScalar(a, scalar, q) == [i \in 1..Len(a) |-> (a[i] * scalar) % q]

\* a negation that is not reduced mod q
PolyNegRaw(a, q) == [i \in 1..Len(a) |-> 0 - a[i]]

\* PolynomialRing.neg: (-a) % q
PolyNeg(a, q) == [i \in 1..Len(a) |-> (0 - a[i]) % q]

\* np.convolve(a, b): coefficient k (0-based) of the full product
Convolve(a, b, k) ==
    LET term == [i \in 1..Len(a) |->
                    IF k + 2 - i >= 1 /\ k + 2 - i <= Len(b)
                    THEN a[i] * b[k + 2 - i] ELSE 0]
    IN  SumTo(term, 1, Len(a))

\* the loop of PolynomialRing.mul before the final reduction:
\* result[i] += conv[i] for i < N, result[i - N] -= conv[i] for i >= N
NegacyclicInt(a, b, n) ==
    [k \in 1..n |-> Convolve(a, b, k - 1) - Convolve(a, b, k - 1 + n)]

\* PolynomialRing.mul: negacyclic convolution, then result % q
PolyMul(a, b, n, q) ==
    LET r == NegacyclicInt(a, b, n) IN [k \in 1..n |-> r[k] % q]

\* PolynomialRing.mod_center: coefficients above q // 2 have q subtracted
ModCenter(a, q) ==
    [i \in 1..Len(a) |-> IF a[i] > q \div 2 THEN a[i] - q ELSE a[i]]

\* truncating division in place of rounding
RoundDown(x, d) == x \div d

\* np.round(x / d) for an integer x and d > 0: round half to even
RoundHalfEven(x, d) ==
    LET f == x \div d
        r == x % d
    IN  IF 2 * r < d THEN f
        ELSE IF 2 * r > d THEN f + 1
        ELSE IF f % 2 = 0 THEN f ELSE f + 1

\* np.zeros(N)
ZeroPoly(n) == [i \in 1..n |-> 0]

\* np.roll(s, rot): element i moves to position (i + rot) mod N
Roll(s, rot) ==
    [k \in 1..Len(s) |-> s[((k - 1 - rot) % Len(s)) + 1]]

----------------------------------------------------------------------------
(* Plaintext and Ciphertext (ciphertext.py)                                 *)

\* Plaintext(poly, params)
Plaintext(poly, prm) == [poly |-> poly, params |-> prm]

\* Ciphertext(components, params): self.size = len(components)
Ciphertext(components, prm) ==
    [components |-> components, params |-> prm, size |-> Len(components)]

\* Ciphertext.is_fresh: self.size == 2
is_fresh(ct) == ct.size = 2

----------------------------------------------------------------------------
(* BFVScheme (bfv_scheme.py): the computations of each method, as functions *)
(* of the scheme instance i, its keys, the arguments and the samples drawn. *)

\* key_generation: b = -(a*s + e) mod q, public key (b, a)
PublicKeyOf(i, s, a, e) ==
    LET n == params(i).N
        q == params(i).q
        a_s == PolyMul(a, s, n, q)
        a_s_e == PolyAdd(a_s, e, q)
    IN  << PolyNeg(a_s_e, q), a >>

\* generate_relin_key: b' = -(a'*s + e') + s^2 mod q, one component (b', a')
RelinKeyOf(i, s, a_prime, e_prime) ==
    LET n == params(i).N
        q == params(i).q
        s_squared == PolyMul(s, s, n, q)
        a_s == PolyMul(a_prime, s, n, q)
        a_s_e == PolyAdd(a_s, e_prime, q)
    IN  << << PolyAdd(PolyNeg(a_s_e, q), s_squared, q), a_prime >> >>

\* generate_rotation_keys with rotations=None: the powers of two below N
DefaultRotations(i) == {r \in {1, 2, 4, 8, 16, 32, 64, 128, 256, 512, 1024} : r < params(i).N}

\* generate_rotation_keys: for each rot, b = -(a*s + e) + roll(s, rot) mod q;
\* smp[rot] = <<a, e>> are the samples drawn for rot
RotationKeysOf(i, s, rotations, smp) ==
    LET n == params(i).N
        q == params(i).q
    IN  [rot \in rotations |->
            LET a == smp[rot][1]
                e == smp[rot][2]
                a_s == PolyMul(a, s, n, q)
                a_s_e == PolyAdd(a_s, e, q)
            IN  << PolyAdd(PolyNeg(a_s_e, q), Roll(s, rot), q), a >>]

\* an integer v and an array of integers <<v0, ..>>, as passed to encode and
\* as returned by decode
Scalar(v) == [kind |-> "int", vals |-> << v >>]
List(vs) == [kind |-> "list", vals |-> vs]

\* a shape check that rejects an array of exactly n_slots values as well
EncodeRaisesAtSlots(i, values) ==
    values.kind = "list" /\ Len(values.vals) >= n_slots(i)

\* encode raises for an array of more than n_slots values
EncodeRaises(i, values) ==
    values.kind = "list" /\ Len(values.vals) > n_slots(i)

\* encode: poly[0] = values % t for an integer, poly[:len(values)] =
\* values % t for an array, zeros elsewhere
EncodePoly(i, values) ==
    [k \in 1..params(i).N |->
        IF k <= Len(values.vals) THEN values.vals[k] % params(i).t ELSE 0]

EncodePt(i, values) == Plaintext(EncodePoly(i, values), params(i))

\* decode: mod_center of the ring (modulus q) applied to poly % t, then the
\* integer poly_centered[0] (num_values == 1) or the slice [:num_values]
DecodeVals(i, plaintext, num_values) ==
    LET poly == plaintext.poly
        red == [k \in 1..Len(poly) |-> poly[k] % params(i).t]
        poly_centered == ModCenter(red, params(i).q)
        n == IF num_values < Len(poly) THEN num_values ELSE Len(poly)
    IN  IF num_values = 1 THEN Scalar(poly_centered[1])
        ELSE List(SubSeq(poly_centered, 1, n))

\* encrypt: c0 = pk0*u + e1 + delta*m, c1 = pk1*u + e2 (mod q)
EncryptCt(i, pk, plaintext, u, e1, e2) ==
    LET n == params(i).N
        q == params(i).q
        m == plaintext.poly
        scaled_m == PolyMulScalar(m, delta(i), q)
        pk0_u == PolyMul(pk[1], u, n, q)
        c0 == PolyAdd(PolyAdd(pk0_u, e1, q), scaled_m, q)
        pk1_u == PolyMul(pk[2], u, n, q)
        c1 == PolyAdd(pk1_u, e2, q)
    IN  Ciphertext(<< c0, c1 >>, params(i))

\* decrypt raises for every ciphertext whose number of components is not 2
DecryptRaises(ct) == Len(ct.components) # 2

\* decrypt: noisy_m = c0 + c1*s mod q, then round(noisy_m / delta) % t
DecryptPt(i, s, ct) ==
    LET n == params(i).N
        q == params(i).q
        c1_s == PolyMul(ct.components[2], s, n, q)
        noisy_m == PolyAdd(ct.components[1], c1_s, q)
        m_recovered == [k \in 1..Len(noisy_m) |->
                           RoundHalfEven(noisy_m[k], delta(i)) % params(i).t]
    IN  Plaintext(m_recovered, params(i))

\* an addition that leaves the second component of ct1 as it is
AddCtFirstOnly(i, ct1, ct2) ==
    Ciphertext(
        << PolyAdd(ct1.components[1], ct2.components[1], params(i).q),
           ct1.components[2] >>,
        ct1.params)

\* an addition whose result carries the params of ct2
AddCtParamsOfSecond(i, ct1, ct2) ==
    LET q == params(i).q
        c1 == ct1.components
        c2 == ct2.components
        max_size == IF Len(c1) >= Len(c2) THEN Len(c1) ELSE Len(c2)
    IN  Ciphertext(
            [k \in 1..max_size |->
                IF k <= Len(c1) /\ k <= Len(c2) THEN PolyAdd(c1[k], c2[k], q)
                ELSE IF k <= Len(c1) THEN c1[k]
                ELSE c2[k]],
            ct2.params)

\* add: componentwise over max(len) components, a missing component of one
\* operand leaves the other operand's component; params of ct1
AddCt(i, ct1, ct2) ==
    LET q == params(i).q
        c1 == ct1.components
        c2 == ct2.components
        max_size == IF Len(c1) >= Len(c2) THEN Len(c1) ELSE Len(c2)
    IN  Ciphertext(
            [k \in 1..max_size |->
                IF k <= Len(c1) /\ k <= Len(c2) THEN PolyAdd(c1[k], c2[k], q)
                ELSE IF k <= Len(c1) THEN c1[k]
                ELSE c2[k]],
            ct1.params)

\* a subtraction that copies a component only ct2 has instead of negating it
SubCtKeepExtra(i, ct1, ct2) ==
    LET q == params(i).q
        c1 == ct1.components
        c2 == ct2.components
        max_size == IF Len(c1) >= Len(c2) THEN Len(c1) ELSE Len(c2)
    IN  Ciphertext(
            [k \in 1..max_size |->
                IF k <= Len(c1) /\ k <= Len(c2) THEN PolySub(c1[k], c2[k], q)
                ELSE IF k <= Len(c1) THEN c1[k]
                ELSE c2[k]],
            ct1.params)

\* a subtraction with its operands exchanged
SubCtSwapped(i, ct1, ct2) ==
    Ciphertext(
        [k \in 1..Len(ct1.components) |->
            PolySub(ct2.components[k], ct1.components[k], params(i).q)],
        ct1.params)

\* sub: as add, with a component only ct2 has negated
SubCt(i, ct1, ct2) ==
    LET q == params(i).q
        c1 == ct1.components
        c2 == ct2.components
        max_size == IF Len(c1) >= Len(c2) THEN Len(c1) ELSE Len(c2)
    IN  Ciphertext(
            [k \in 1..max_size |->
                IF k <= Len(c1) /\ k <= Len(c2) THEN PolySub(c1[k], c2[k], q)
                ELSE IF k <= Len(c1) THEN c1[k]
                ELSE PolyNeg(c2[k], q)],
            ct1.params)

\* a freshness check of the first operand only
MultiplyRaisesFirst(ct1, ct2) == ~is_fresh(ct1)

\* multiply raises unless both operands are fresh
MultiplyRaises(ct1, ct2) == ~is_fresh(ct1) \/ ~is_fresh(ct2)

\* the scale correction of multiply: np.round(d / t) % q
ScaleCorrection(d, i) ==
    [k \in 1..Len(d) |-> RoundHalfEven(d[k], params(i).t) % params(i).q]

\* multiply: the tensor products taken with PolynomialRing.mul (reduced
\* mod q), each then divided by t, rounded and reduced mod q
MultiplyCt(i, ct1, ct2) ==
    LET n == params(i).N
        q == params(i).q
        c1_0 == ct1.components[1]
        c1_1 == ct1.components[2]
        c2_0 == ct2.components[1]
        c2_1 == ct2.components[2]
        d0 == PolyMul(c1_0, c2_0, n, q)
        d1 == PolyAdd(PolyMul(c1_0, c2_1, n, q), PolyMul(c1_1, c2_0, n, q), q)
        d2 == PolyMul(c1_1, c2_1, n, q)
    IN  Ciphertext(<< ScaleCorrection(d0, i), ScaleCorrection(d1, i),
                      ScaleCorrection(d2, i) >>, ct1.params)

\* a relinearization that uses the key components the other way round
RelinearizeCtSwapped(i, evk, ct) ==
    IF ct.size # 3 THEN ct
    ELSE LET n == params(i).N
             q == params(i).q
             c == ct.components
             evk_b == evk[1][1]
             evk_a == evk[1][2]
             new_c0 == PolyAdd(c[1], PolyMul(c[3], evk_a, n, q), q)
             new_c1 == PolyAdd(c[2], PolyMul(c[3], evk_b, n, q), q)
         IN  Ciphertext(<< new_c0, new_c1 >>, ct.params)

\* relinearize: a ciphertext whose size is not 3 is returned as it is;
\* otherwise (c0 + c2*evk_b, c1 + c2*evk_a) with the first key component
RelinearizeCt(i, evk, ct) ==
    IF ct.size # 3 THEN ct
    ELSE LET n == params(i).N
             q == params(i).q
             c == ct.components
             evk_b == evk[1][1]
             evk_a == evk[1][2]
             new_c0 == PolyAdd(c[1], PolyMul(c[3], evk_b, n, q), q)
             new_c1 == PolyAdd(c[2], PolyMul(c[3], evk_a, n, q), q)
         IN  Ciphertext(<< new_c0, new_c1 >>, ct.params)

\* a plaintext multiplication of the first component only
MultiplyPlainFirst(i, ct, plaintext) ==
    Ciphertext(
        [k \in 1..Len(ct.components) |->
            IF k = 1
            THEN PolyMul(ct.components[k], plaintext.poly, params(i).N, params(i).q)
            ELSE ct.components[k]],
        ct.params)

\* multiply_plain: every component times the plaintext polynomial
MultiplyPlainCt(i, ct, plaintext) ==
    Ciphertext(
        [k \in 1..Len(ct.components) |->
            PolyMul(ct.components[k], plaintext.poly, params(i).N, params(i).q)],
        ct.params)

\* a negation of the first component only
NegateCtFirst(i, ct) ==
    Ciphertext(
        [k \in 1..Len(ct.components) |->
            IF k = 1 THEN PolyNeg(ct.components[k], params(i).q)
            ELSE ct.components[k]],
        ct.params)

\* negate: every component negated
NegateCt(i, ct) ==
    Ciphertext(
        [k \in 1..Len(ct.components) |-> PolyNeg(ct.components[k], params(i).q)],
        ct.params)

----------------------------------------------------------------------------
(* State.                                                                   *)
(*                                                                          *)
(* scheme[i]  the key fields of scheme instance i (None until generated)    *)
(* pt, ct     the plaintexts and ciphertexts the caller holds, by register  *)
(* out        the value returned by the last decode                         *)
(* last       the last call: method, instance, whether it raised, the       *)
(*            arguments, the returned object and whether that object is one *)
(*            of the arguments                                              *)
(* keynoise, prov, nops are history variables: the error polynomial drawn   *)
(* by key_generation, how each held object was produced (with the values    *)
(* encoded and the samples drawn), and the number of evaluation calls.      *)

VARIABLES scheme, pt, ct, out, last, keynoise, prov, nops

vars == << scheme, pt, ct, out, last, keynoise, prov, nops >>

PtRegs == {1, 2, 3}
CtRegs == {1, 2, 3}

NoProv == [kind |-> "none", src |-> << >>, dec |-> FALSE]

\* same is 0 when the returned object was created by the call, and k when
\* the call returned the object passed as its k-th argument
Call(op, i, raised, args, result) ==
    [op |-> op, inst |-> i, raised |-> raised, args |-> args, result |-> result,
     same |-> 0]

\* the noise of a fresh encryption, e1 + e2*s - e*u over the integers
FreshNoise(i, s, e, u, e1, e2) ==
    LET n == params(i).N
        e2_s == NegacyclicInt(e2, s, n)
        e_u == NegacyclicInt(e, u, n)
    IN  [k \in 1..n |-> e1[k] + e2_s[k] - e_u[k]]

\* the supports of the samplers: random_ternary, random_uniform and
\* DiscreteGaussian.sample_bounded(6 * int(sigma))
TernarySupport(i) == [1..params(i).N -> {-1, 0, 1}]
UniformSupport(i) == [1..params(i).N -> 0..(params(i).q - 1)]
GaussianSupport(i) == [1..params(i).N -> (0 - noise_bound)..noise_bound]

\* BFVScheme.__init__: no key is set
Init ==
    /\ scheme = [i \in Instances |->
                    [secret_key |-> None, public_key |-> None,
                     relin_key |-> None, rotation_keys |-> None]]
    /\ pt = [r \in PtRegs |-> None]
    /\ ct = [r \in CtRegs |-> None]
    /\ out = None
    /\ last = Call("__init__", 0, FALSE, << >>, None)
    /\ keynoise = [i \in Instances |-> None]
    /\ prov = [pt |-> [r \in PtRegs |-> NoProv],
               ct |-> [r \in CtRegs |-> NoProv],
               out |-> NoProv]
    /\ nops = 0

\* a call that raises changes nothing but the record of the call
Raise(op, i, args) ==
    /\ last' = Call(op, i, TRUE, args, None)
    /\ UNCHANGED << scheme, pt, ct, out, keynoise, prov, nops >>

\* key_generation with s drawn from TS, a from US and e from ES
key_generation(i, TS, US, ES) ==
    \E s \in {x \in TS : x \in TernarySupport(i)},
       a \in {x \in US : x \in UniformSupport(i)},
       e \in {x \in ES : x \in GaussianSupport(i)} :
        /\ scheme' = [scheme EXCEPT ![i].secret_key = Some(s),
                                    ![i].public_key = Some(PublicKeyOf(i, s, a, e))]
        /\ keynoise' = [keynoise EXCEPT ![i] = Some(e)]
        /\ last' = Call("key_generation", i, FALSE, << >>,
                        Some(<< s, PublicKeyOf(i, s, a, e) >>))
        /\ UNCHANGED << pt, ct, out, prov, nops >>

\* generate_relin_key with a' drawn from US and e' from ES
generate_relin_key(i, US, ES) ==
    IF IsNone(scheme[i].secret_key)
    THEN Raise("generate_relin_key", i, << >>)
    ELSE \E a_prime \in {x \in US : x \in UniformSupport(i)},
            e_prime \in {x \in ES : x \in GaussianSupport(i)} :
            LET evk == RelinKeyOf(i, The(scheme[i].secret_key), a_prime, e_prime)
            IN  /\ scheme' = [scheme EXCEPT ![i].relin_key = Some(evk)]
                /\ last' = Call("generate_relin_key", i, FALSE, << >>, Some(evk))
                /\ UNCHANGED << pt, ct, out, keynoise, prov, nops >>

\* generate_rotation_keys(rotations): rotations is None or Some(set of amounts)
generate_rotation_keys(i, rotations, US, ES) ==
    IF IsNone(scheme[i].secret_key)
    THEN Raise("generate_rotation_keys", i, << rotations >>)
    ELSE LET rots == IF IsNone(rotations) THEN DefaultRotations(i)
                     ELSE The(rotations)
             AS == {x \in US : x \in UniformSupport(i)}
             GS == {x \in ES : x \in GaussianSupport(i)}
         IN  \E smp \in [rots -> AS \X GS] :
                LET rk == RotationKeysOf(i, The(scheme[i].secret_key), rots, smp)
                IN  /\ scheme' = [scheme EXCEPT ![i].rotation_keys = Some(rk)]
                    /\ last' = Call("generate_rotation_keys", i, FALSE,
                                    << rotations >>, Some(rk))
                    /\ UNCHANGED << pt, ct, out, keynoise, prov, nops >>

\* encode(values), the plaintext kept in register r
encode(i, values, r) ==
    IF EncodeRaises(i, values)
    THEN Raise("encode", i, << values >>)
    ELSE /\ pt' = [pt EXCEPT ![r] = Some(EncodePt(i, values))]
         /\ prov' = [prov EXCEPT !.pt[r] =
                        [kind |-> "encode", dec |-> FALSE,
                         src |-> << [values |-> values,
                                     m |-> EncodePoly(i, values),
                                     noise |-> ZeroPoly(params(i).N),
                                     sk |-> None, inst |-> i] >>]]
         /\ last' = Call("encode", i, FALSE, << values >>,
                         Some(EncodePt(i, values)))
         /\ UNCHANGED << scheme, ct, out, keynoise, nops >>

\* decode(pt[r], num_values)
decode(i, r, num_values) ==
    /\ IsSome(pt[r])
    /\ out' = Some(DecodeVals(i, The(pt[r]), num_values))
    /\ prov' = [prov EXCEPT !.out = prov.pt[r]]
    /\ last' = Call("decode", i, FALSE, << The(pt[r]), num_values >>,
                    Some(DecodeVals(i, The(pt[r]), num_values)))
    /\ UNCHANGED << scheme, pt, ct, keynoise, nops >>

\* encrypt(pt[p]) with u drawn from TS and e1, e2 from ES, kept in ct[c]
encrypt(i, p, c, TS, ES) ==
    /\ IsSome(pt[p])
    /\ IF IsNone(scheme[i].public_key)
       THEN Raise("encrypt", i, << The(pt[p]) >>)
       ELSE \E u \in {x \in TS : x \in TernarySupport(i)},
               e1 \in {x \in ES : x \in GaussianSupport(i)},
               e2 \in {x \in ES : x \in GaussianSupport(i)} :
               LET new == EncryptCt(i, The(scheme[i].public_key), The(pt[p]), u, e1, e2)
                   s == The(scheme[i].secret_key)
                   d == prov.pt[p].src[1]
               IN  /\ ct' = [ct EXCEPT ![c] = Some(new)]
                   /\ prov' = [prov EXCEPT !.ct[c] =
                                  IF prov.pt[p].kind = "encode"
                                  THEN [kind |-> "encrypt", dec |-> FALSE,
                                        src |-> << [d EXCEPT
                                            !.noise = FreshNoise(i, s, The(keynoise[i]), u, e1, e2),
                                            !.sk = Some(s), !.inst = i] >>]
                                  ELSE [kind |-> "other", dec |-> FALSE, src |-> << >>]]
                   /\ last' = Call("encrypt", i, FALSE, << The(pt[p]) >>, Some(new))
                   /\ UNCHANGED << scheme, pt, out, keynoise, nops >>

\* a decrypt without the check of the secret key: a missing key is taken
\* to be the zero polynomial
decrypt_unchecked(i, c, p) ==
    /\ IsSome(ct[c])
    /\ IF DecryptRaises(The(ct[c]))
       THEN Raise("decrypt", i, << The(ct[c]) >>)
       ELSE LET s == IF IsNone(scheme[i].secret_key) THEN ZeroPoly(params(i).N)
                     ELSE The(scheme[i].secret_key)
                new == DecryptPt(i, s, The(ct[c]))
            IN  /\ pt' = [pt EXCEPT ![p] = Some(new)]
                /\ prov' = [prov EXCEPT !.pt[p] = [prov.ct[c] EXCEPT !.dec = TRUE]]
                /\ last' = Call("decrypt", i, FALSE, << The(ct[c]) >>, Some(new))
                /\ UNCHANGED << scheme, ct, out, keynoise, nops >>

\* decrypt(ct[c]), the plaintext kept in pt[p]
decrypt(i, c, p) ==
    /\ IsSome(ct[c])
    /\ IF IsNone(scheme[i].secret_key) \/ DecryptRaises(The(ct[c]))
       THEN Raise("decrypt", i, << The(ct[c]) >>)
       ELSE LET new == DecryptPt(i, The(scheme[i].secret_key), The(ct[c]))
            IN  /\ pt' = [pt EXCEPT ![p] = Some(new)]
                /\ prov' = [prov EXCEPT !.pt[p] = [prov.ct[c] EXCEPT !.dec = TRUE]]
                /\ last' = Call("decrypt", i, FALSE, << The(ct[c]) >>, Some(new))
                /\ UNCHANGED << scheme, ct, out, keynoise, nops >>

\* the result of an evaluation call on ct[x] (and ct[y]) is kept in ct[d]
Evaluated(op, i, args, new, d, kind, src) ==
    /\ ct' = [ct EXCEPT ![d] = Some(new)]
    /\ prov' = [prov EXCEPT !.ct[d] = [kind |-> kind, dec |-> FALSE, src |-> src]]
    /\ last' = Call(op, i, FALSE, args, Some(new))
    /\ nops' = nops + 1
    /\ UNCHANGED << scheme, pt, out, keynoise >>

BothFresh(x, y) == prov.ct[x].kind = "encrypt" /\ prov.ct[y].kind = "encrypt"

\* History of add, sub and negate over fresh encryptions of integers under
\* one secret key: the integer combination of the encoded values, of the
\* plaintext polynomials and of the fresh noises.
Combined(a, b, sign) ==
    [values |-> [kind |-> "int",
                 vals |-> << a.values.vals[1] + sign * b.values.vals[1] >>],
     m |-> [k \in 1..Len(a.m) |-> a.m[k] + sign * b.m[k]],
     noise |-> [k \in 1..Len(a.noise) |-> a.noise[k] + sign * b.noise[k]],
     sk |-> a.sk, inst |-> a.inst]

Negated(a) ==
    [values |-> [kind |-> "int", vals |-> << 0 - a.values.vals[1] >>],
     m |-> [k \in 1..Len(a.m) |-> 0 - a.m[k]],
     noise |-> [k \in 1..Len(a.noise) |-> 0 - a.noise[k]],
     sk |-> a.sk, inst |-> a.inst]

Trackable(p) ==
    /\ p.kind \in {"encrypt", "add", "sub", "negate", "linear"}
    /\ \A k \in 1..Len(p.src) :
          p.src[k].values.kind = "int" /\ p.src[k].sk = p.src[1].sk

LinOf(p) ==
    IF p.kind = "add" THEN Combined(p.src[1], p.src[2], 1)
    ELSE IF p.kind = "sub" THEN Combined(p.src[1], p.src[2], 0 - 1)
    ELSE IF p.kind = "negate" THEN Negated(p.src[1])
    ELSE p.src[1]

Chained(x, y) ==
    /\ Trackable(prov.ct[x]) /\ Trackable(prov.ct[y])
    /\ LinOf(prov.ct[x]).sk = LinOf(prov.ct[y]).sk

\* add(ct[x], ct[y])
add(i, x, y, d) ==
    /\ IsSome(ct[x]) /\ IsSome(ct[y])
    /\ Evaluated("add", i, << The(ct[x]), The(ct[y]) >>,
                 AddCt(i, The(ct[x]), The(ct[y])), d,
                 IF BothFresh(x, y) THEN "add"
                 ELSE IF Chained(x, y) THEN "linear" ELSE "other",
                 IF BothFresh(x, y) THEN prov.ct[x].src \o prov.ct[y].src
                 ELSE IF Chained(x, y)
                 THEN << Combined(LinOf(prov.ct[x]), LinOf(prov.ct[y]), 1) >>
                 ELSE << >>)

\* sub(ct[x], ct[y])
sub(i, x, y, d) ==
    /\ IsSome(ct[x]) /\ IsSome(ct[y])
    /\ Evaluated("sub", i, << The(ct[x]), The(ct[y]) >>,
                 SubCt(i, The(ct[x]), The(ct[y])), d,
                 IF BothFresh(x, y) THEN "sub"
                 ELSE IF Chained(x, y) THEN "linear" ELSE "other",
                 IF BothFresh(x, y) THEN prov.ct[x].src \o prov.ct[y].src
                 ELSE IF Chained(x, y)
                 THEN << Combined(LinOf(prov.ct[x]), LinOf(prov.ct[y]), 0 - 1) >>
                 ELSE << >>)

\* multiply(ct[x], ct[y])
multiply(i, x, y, d) ==
    /\ IsSome(ct[x]) /\ IsSome(ct[y])
    /\ IF MultiplyRaises(The(ct[x]), The(ct[y]))
       THEN Raise("multiply", i, << The(ct[x]), The(ct[y]) >>)
       ELSE Evaluated("multiply", i, << The(ct[x]), The(ct[y]) >>,
                      MultiplyCt(i, The(ct[x]), The(ct[y])), d,
                      IF BothFresh(x, y) THEN "multiply" ELSE "other",
                      IF BothFresh(x, y) THEN prov.ct[x].src \o prov.ct[y].src
                      ELSE << >>)

\* relinearize(ct[x]): a ciphertext whose size is not 3 is returned itself
relinearize(i, x, d) ==
    /\ IsSome(ct[x])
    /\ IF IsNone(scheme[i].relin_key)
       THEN Raise("relinearize", i, << The(ct[x]) >>)
       ELSE IF The(ct[x]).size # 3
       THEN /\ ct' = [ct EXCEPT ![d] = ct[x]]
            /\ prov' = [prov EXCEPT !.ct[d] = prov.ct[x]]
            /\ last' = [Call("relinearize", i, FALSE, << The(ct[x]) >>,
                              Some(RelinearizeCt(i, The(scheme[i].relin_key), The(ct[x]))))
                           EXCEPT !.same = 1]
            /\ nops' = nops + 1
            /\ UNCHANGED << scheme, pt, out, keynoise >>
       ELSE Evaluated("relinearize", i, << The(ct[x]) >>,
                      RelinearizeCt(i, The(scheme[i].relin_key), The(ct[x])), d,
                      IF prov.ct[x].kind = "multiply" THEN "relin_multiply"
                      ELSE "other",
                      IF prov.ct[x].kind = "multiply" THEN prov.ct[x].src
                      ELSE << >>)

\* multiply_plain(ct[x], pt[p])
multiply_plain(i, x, p, d) ==
    /\ IsSome(ct[x]) /\ IsSome(pt[p])
    /\ LET known == prov.ct[x].kind = "encrypt" /\ prov.pt[p].kind = "encode"
       IN  Evaluated("multiply_plain", i, << The(ct[x]), The(pt[p]) >>,
                     MultiplyPlainCt(i, The(ct[x]), The(pt[p])), d,
                     IF known THEN "multiply_plain" ELSE "other",
                     IF known THEN prov.ct[x].src \o prov.pt[p].src ELSE << >>)

\* negate(ct[x])
negate(i, x, d) ==
    /\ IsSome(ct[x])
    /\ Evaluated("negate", i, << The(ct[x]) >>, NegateCt(i, The(ct[x])), d,
                 IF prov.ct[x].kind = "encrypt" THEN "negate"
                 ELSE IF Trackable(prov.ct[x]) THEN "linear" ELSE "other",
                 IF prov.ct[x].kind = "encrypt" THEN prov.ct[x].src
                 ELSE IF Trackable(prov.ct[x]) THEN << Negated(LinOf(prov.ct[x])) >>
                 ELSE << >>)

----------------------------------------------------------------------------
(* Samples of the samplers' supports and of the caller's inputs.            *)

\* largest magnitude of a sampled error coefficient (at most noise_bound)
NoiseMag == 1
\* integers passed to encode range over -MaxVal..MaxVal
MaxVal == 5

Abs(x) == IF x < 0 THEN 0 - x ELSE x

RECURSIVE MaxAbs(_, _)
MaxAbs(p, k) ==
    IF k = 0 THEN 0
    ELSE LET rest == MaxAbs(p, k - 1)
         IN  IF Abs(p[k]) > rest THEN Abs(p[k]) ELSE rest

\* the infinity norm of an integer polynomial
InfNorm(p) == MaxAbs(p, Len(p))

\* ternary polynomials of degree below 2: the whole support
TernarySample == [1..N -> {-1, 0, 1}]
\* error polynomials with coefficients of magnitude NoiseMag
NoiseSample == {<< 0, 0 >>, << NoiseMag, 0 - NoiseMag >>,
                << 0 - NoiseMag, 0 >>, << 0, NoiseMag >>}
\* smaller samples, for the specifications that hold two ciphertexts
TernaryFew == {<< 1, 0 >>, << -1, 1 >>}
NoiseFew == {<< 0, 0 >>, << 0 - NoiseMag, NoiseMag >>}
UniformFew == {<< 3, q_modulus - 1 >>}
TernaryOne == {<< -1, 1 >>}

\* the integers passed to encode
ScalarValues == {Scalar(v) : v \in (0 - MaxVal)..MaxVal}
\* the factors of a product: integers in -MaxFactor..MaxFactor
MaxFactor == 2
FactorValues == {Scalar(v) : v \in (0 - MaxFactor)..MaxFactor}
\* scalars and vectors of at most N/2 = 1 values of magnitude below t/2
SmallValues ==
    FactorValues \cup {List(<< >>)}
        \cup {List(<< v >>) : v \in (0 - MaxFactor)..MaxFactor}

----------------------------------------------------------------------------
(* Encrypt/decrypt round trip of scheme instance 1: every register is       *)
(* written once.                                                            *)

NextRT ==
    \/ IsNone(scheme[1].secret_key)
       /\ key_generation(1, TernarySample, UniformFew, NoiseSample)
    \/ \E v \in SmallValues : IsNone(pt[1]) /\ encode(1, v, 1)
    \/ IsNone(ct[1]) /\ encrypt(1, 1, 1, TernarySample, NoiseSample)
    \/ IsNone(pt[3]) /\ decrypt(1, 1, 3)

SpecRT == Init /\ [][NextRT]_vars

----------------------------------------------------------------------------
(* Addition and subtraction of two fresh encryptions of instance 1.         *)

NextAddSub ==
    \/ IsNone(scheme[1].secret_key)
       /\ key_generation(1, TernaryFew, UniformFew, NoiseFew)
    \/ \E v \in ScalarValues, r \in {1, 2} : IsNone(pt[r]) /\ encode(1, v, r)
    \/ \E r \in {1, 2} : IsNone(ct[r]) /\ encrypt(1, r, r, TernaryFew, NoiseFew)
    \/ IsNone(ct[3]) /\ add(1, 1, 2, 3)
    \/ IsNone(ct[3]) /\ sub(1, 1, 2, 3)
    \/ IsNone(pt[3]) /\ decrypt(1, 3, 3)
    \/ IsNone(out) /\ decode(1, 3, 1)

SpecAddSub == Init /\ [][NextAddSub]_vars

----------------------------------------------------------------------------
(* Multiplication of a fresh encryption by an encoded plaintext.            *)

NextPlain ==
    \/ IsNone(scheme[1].secret_key)
       /\ key_generation(1, TernaryFew, UniformFew, NoiseFew)
    \/ \E v \in ScalarValues, r \in {1, 2} : IsNone(pt[r]) /\ encode(1, v, r)
    \/ IsNone(ct[1]) /\ encrypt(1, 1, 1, TernaryFew, NoiseFew)
    \/ IsNone(ct[3]) /\ multiply_plain(1, 1, 2, 3)
    \/ IsNone(pt[3]) /\ decrypt(1, 3, 3)
    \/ IsNone(out) /\ decode(1, 3, 1)

SpecPlain == Init /\ [][NextPlain]_vars

----------------------------------------------------------------------------
(* Multiplication and relinearization of encryptions of instance 1: at most *)
(* MaxOps evaluation calls, whose results are kept in ct[3].                *)

\* the number of evaluation calls of a run
MaxOps == 2

NextMul ==
    \/ IsNone(scheme[1].secret_key)
       /\ key_generation(1, TernaryFew, UniformFew, NoiseFew)
    \/ IsNone(scheme[1].relin_key)
       /\ generate_relin_key(1, UniformFew, NoiseFew)
    \/ \E v \in FactorValues, r \in {1, 2} : IsNone(pt[r]) /\ encode(1, v, r)
    \/ \E r \in {1, 2} : IsNone(ct[r]) /\ encrypt(1, r, r, TernaryOne, NoiseFew)
    \/ \E xy \in {<< 1, 2 >>, << 3, 2 >>, << 2, 3 >>} :
          nops < MaxOps /\ IsNone(pt[3]) /\ multiply(1, xy[1], xy[2], 3)
    \/ nops < MaxOps /\ IsNone(pt[3]) /\ relinearize(1, 3, 3)
    \/ IsNone(pt[3]) /\ decrypt(1, 3, 3)
    \/ IsNone(out) /\ decode(1, 3, 1)

SpecMul == Init /\ [][NextMul]_vars

----------------------------------------------------------------------------
(* Encoding and decoding by scheme instance 3 (N = 4, two slots): one       *)
(* plaintext is encoded and decoded once.                                   *)

\* arrays of up to MaxLen values are passed to encode
MaxLen == 3

\* scalars, and arrays of 0..MaxLen values of magnitude at most MaxFactor
EncValues ==
    ScalarValues
        \cup {List(vs) : vs \in UNION {[1..k -> (0 - MaxFactor)..MaxFactor] :
                                          k \in 0..MaxLen}}

NextEnc ==
    \/ \E v \in EncValues : IsNone(pt[1]) /\ encode(3, v, 1)
    \/ \E k \in 0..MaxLen : IsNone(out) /\ decode(3, 1, k)

SpecEnc == Init /\ [][NextEnc]_vars

----------------------------------------------------------------------------
(* Two scheme instances with different plaintext moduli.  Each encodes and  *)
(* encrypts its own value; instance 1 evaluates and decrypts whatever       *)
(* ciphertexts are held, with or without its keys.                          *)

NoiseOne == {<< 0 - NoiseMag, NoiseMag >>}
MixValues == {Scalar(1), Scalar(0 - MaxFactor)}

NextMix ==
    \/ \E i \in {1, 2} :
          IsNone(scheme[i].secret_key)
          /\ key_generation(i, TernaryOne, UniformFew, NoiseOne)
    \/ IsNone(scheme[1].relin_key) /\ generate_relin_key(1, UniformFew, NoiseOne)
    \/ \E rotations \in {None, Some({1})} :
          IsNone(scheme[1].rotation_keys)
          /\ generate_rotation_keys(1, rotations, UniformFew, NoiseOne)
    \/ \E i \in {1, 2}, v \in MixValues : IsNone(pt[i]) /\ encode(i, v, i)
    \/ \E i \in {1, 2} : IsNone(ct[i]) /\ encrypt(i, i, i, TernaryOne, NoiseOne)
    \/ multiply(2, 2, 2, 2)
    \/ \E xy \in {<< 1, 2 >>, << 2, 1 >>} :
          IsNone(ct[3]) /\ add(1, xy[1], xy[2], 3)
    \/ \E xy \in {<< 1, 2 >>, << 2, 1 >>} :
          IsNone(ct[3]) /\ sub(1, xy[1], xy[2], 3)
    \/ \E x \in {1, 2} : IsNone(ct[3]) /\ relinearize(1, x, 3)
    \/ \E c \in CtRegs : IsNone(pt[3]) /\ decrypt(1, c, 3)

SpecMix == Init /\ [][NextMix]_vars

----------------------------------------------------------------------------
(* Construction: BFVScheme(N, t, q_bits) builds PolynomialRing(N, q), which *)
(* checks N, and then sets delta, the key fields and n_slots.               *)

\* x & y of Python integers (two's complement of unbounded width)
RECURSIVE BitAnd(_, _)
BitAnd(x, y) ==
    IF x = 0 \/ y = 0 THEN 0
    ELSE IF x = -1 THEN y
    ELSE IF y = -1 THEN x
    ELSE (x % 2) * (y % 2) + 2 * BitAnd(x \div 2, y \div 2)

\* PolynomialRing.__init__ raises when N & (N - 1) != 0
RingRaises(n) == BitAnd(n, n - 1) # 0

\* the fields of a constructed scheme
SchemeOf(n, tt, qb) ==
    [N |-> n, t |-> tt, q |-> Pow2(qb) - 1,
     delta |-> (Pow2(qb) - 1) \div tt, n_slots |-> n \div 2,
     secret_key |-> None, public_key |-> None,
     relin_key |-> None, rotation_keys |-> None]

\* BFVScheme(N=n, t=tt, q_bits=qb)
construct(n, tt, qb) ==
    /\ last' = IF RingRaises(n)
               THEN Call("__init__", 0, TRUE, << n, tt, qb >>, None)
               ELSE Call("__init__", 0, FALSE, << n, tt, qb >>,
                         Some(SchemeOf(n, tt, qb)))
    /\ UNCHANGED << scheme, pt, ct, out, keynoise, prov, nops >>

\* ring degrees 0..MaxN are passed to the constructor
MaxN == 16

NextCtor ==
    \E n \in 0..MaxN, tt \in {t_other, t}, qb \in (q_bits - 2)..q_bits :
        construct(n, tt, qb)

SpecCtor == Init /\ [][NextCtor]_vars

----------------------------------------------------------------------------
(* PolynomialRing.mul on np.int64 with the default modulus q = 2^60 - 1.     *)
(*                                                                          *)
(* A 64-bit word is a sequence of WordBits/4 hexadecimal digits, least      *)
(* significant first, holding the two's complement bit pattern; np.int64    *)
(* arithmetic wraps, that is, it keeps the low 64 bits.                     *)

\* the width of np.int64
WordBits == 64
\* the default q_bits of BFVScheme
q_bits_default == 60

Base == Pow2(4)
WordDigits == WordBits \div 4
QDigits == q_bits_default \div 4

\* digit k of a sequence of digits, 0 beyond its length
DigitAt(x, k) == IF k <= Len(x) THEN x[k] ELSE 0

\* digits k..n of the number whose digit positions carry the integers raw,
\* given the carry c into position k; the carry out of position n is dropped
RECURSIVE Carry(_, _, _, _)
Carry(raw, k, n, c) ==
    IF k > n THEN << >>
    ELSE LET v == DigitAt(raw, k) + c
         IN  << v % Base >> \o Carry(raw, k + 1, n, v \div Base)

\* the n low digits of the number whose digit positions carry raw
Normalize(raw, n) == Carry(raw, 1, n, 0)

\* the digit products of x * y, position by position
MulRaw(x, y) == [k \in 1..(Len(x) + Len(y)) |-> Convolve(x, y, k - 1)]

\* int64 multiplication, addition and subtraction: the low 64 bits
Mul64(x, y) == Normalize(MulRaw(x, y), WordDigits)
Add64(x, y) == Normalize([k \in 1..WordDigits |-> x[k] + y[k]], WordDigits)
Sub64(x, y) == Normalize([k \in 1..WordDigits |-> x[k] - y[k]], WordDigits)

\* the residue in [0, q) of a nonnegative number, q = 16^QDigits - 1: the
\* groups of QDigits digits are added up, since 16^QDigits = 1 mod q
RECURSIVE FoldQ(_)
FoldQ(x) ==
    IF \A k \in (QDigits + 1)..Len(x) : x[k] = 0
    THEN IF \A k \in 1..QDigits : DigitAt(x, k) = Base - 1
         THEN [k \in 1..QDigits |-> 0]
         ELSE [k \in 1..QDigits |-> DigitAt(x, k)]
    ELSE LET groups == (Len(x) + QDigits - 1) \div QDigits
             raw == [k \in 1..QDigits |->
                        SumTo([g \in 1..groups |-> DigitAt(x, k + (g - 1) * QDigits)],
                              1, groups)]
         IN  FoldQ(Normalize(raw, QDigits + 1))

\* w % q for an int64 w: a word with the sign bit set stands for its bit
\* pattern less 2^64, and 2^64 = 16^(WordDigits - QDigits) mod q
ModQ64(w) ==
    IF w[WordDigits] < Base \div 2 THEN FoldQ(w)
    ELSE FoldQ(Normalize(
            [k \in 1..WordDigits |->
                w[k] + (IF k > QDigits THEN 0
                        ELSE IF k = WordDigits - QDigits + 1 THEN Base - 2
                        ELSE Base - 1)],
            WordDigits + 1))

ZeroWord == [k \in 1..WordDigits |-> 0]

\* conv[k] of np.convolve(a, b) on int64 arrays (k from 0): the terms
\* a[i] * b[k - i] for i = lo..hi, accumulated in int64
RECURSIVE Conv64(_, _, _, _, _)
Conv64(a, b, k, lo, hi) ==
    IF lo > hi THEN ZeroWord
    ELSE Add64(Mul64(a[lo], b[k + 2 - lo]), Conv64(a, b, k, lo + 1, hi))

\* conv[k] with the range of i for which both indices exist
ConvAt64(a, b, k) ==
    LET lo == IF k + 2 - Len(b) > 1 THEN k + 2 - Len(b) ELSE 1
        hi == IF k + 1 < Len(a) THEN k + 1 ELSE Len(a)
    IN  Conv64(a, b, k, lo, hi)

\* PolynomialRing.mul on int64: result[i] += conv[i] for i < N,
\* result[i - N] -= conv[i] for i >= N, then result % q
RingMul64(a, b) ==
    LET n == Len(a)
    IN  [k \in 1..n |->
            ModQ64(IF k - 1 + n <= 2 * n - 2
                   THEN Sub64(Add64(ZeroWord, ConvAt64(a, b, k - 1)),
                              ConvAt64(a, b, k - 1 + n))
                   ELSE Add64(ZeroWord, ConvAt64(a, b, k - 1)))]

\* the word with digit d at position pos (d * 16^(pos - 1))
DigitWord(d, pos) == [k \in 1..WordDigits |-> IF k = pos THEN d ELSE 0]

\* coefficients in [0, q): 0, 1, 2^32 and q - 1
WideCoeffs ==
    {ZeroWord, DigitWord(1, 1), DigitWord(1, WordBits \div 8 + 1),
     [k \in 1..WordDigits |-> IF k > QDigits THEN 0
                              ELSE IF k = 1 THEN Base - 2 ELSE Base - 1]}

\* PolynomialRing(N, 2^60 - 1).mul(a, b)
ring_mul(a, b) ==
    /\ last' = Call("mul", 0, FALSE, << a, b >>, Some(RingMul64(a, b)))
    /\ UNCHANGED << scheme, pt, ct, out, keynoise, prov, nops >>

\* one product of two polynomials of N coefficients per run
NextRing ==
    \E a \in [1..N -> WideCoeffs], b \in [1..N -> WideCoeffs] :
        last.op = "__init__" /\ ring_mul(a, b)

SpecRing == Init /\ [][NextRing]_vars

----------------------------------------------------------------------------
(* Every key generation and every evaluation operation of instance 1, on    *)
(* two fresh encryptions and on the results kept in ct[3]: at most MaxOps   *)
(* evaluation calls.                                                        *)

NextAll ==
    \/ IsNone(scheme[1].secret_key)
       /\ key_generation(1, TernaryFew, UniformFew, NoiseFew)
    \/ IsNone(scheme[1].relin_key) /\ generate_relin_key(1, UniformFew, NoiseOne)
    \/ \E rotations \in {None, Some({1})} :
          IsNone(scheme[1].rotation_keys)
          /\ generate_rotation_keys(1, rotations, UniformFew, NoiseOne)
    \/ \E v \in MixValues, r \in {1, 2} : IsNone(pt[r]) /\ encode(1, v, r)
    \/ \E r \in {1, 2} : IsNone(ct[r]) /\ encrypt(1, r, r, TernaryOne, NoiseOne)
    \/ \E xy \in {<< 1, 2 >>, << 3, 1 >>, << 1, 3 >>} :
          nops < MaxOps /\ add(1, xy[1], xy[2], 3)
    \/ \E xy \in {<< 1, 2 >>, << 3, 1 >>, << 1, 3 >>} :
          nops < MaxOps /\ sub(1, xy[1], xy[2], 3)
    \/ \E xy \in {<< 1, 2 >>, << 3, 1 >>, << 1, 3 >>} :
          nops < MaxOps /\ multiply(1, xy[1], xy[2], 3)
    \/ nops < MaxOps /\ relinearize(1, 3, 3)
    \/ \E x \in {1, 3} : nops < MaxOps /\ multiply_plain(1, x, 1, 3)
    \/ \E x \in {1, 3} : nops < MaxOps /\ negate(1, x, 3)

SpecAll == Init /\ [][NextAll]_vars

----------------------------------------------------------------------------
(* Chains of add, sub and negate over three fresh encryptions of instance   *)
(* 1: ct[3] holds the running result, ct[2] is encrypted again from pt[3]   *)
(* after the first operation.                                               *)

\* the integers encrypted: residues 1, MaxFactor and t - MaxFactor
ChainValues == {Scalar(0 - MaxFactor), Scalar(1), Scalar(MaxFactor)}

NextChain ==
    \/ IsNone(scheme[1].secret_key)
       /\ key_generation(1, TernaryFew, UniformFew, NoiseOne)
    \/ \E v \in ChainValues, r \in PtRegs : IsNone(pt[r]) /\ encode(1, v, r)
    \/ \E r \in {1, 2} : IsNone(ct[r]) /\ encrypt(1, r, r, TernaryOne, NoiseFew)
    \/ nops = 1 /\ IsSome(pt[3]) /\ prov.pt[3].kind = "encode"
       /\ encrypt(1, 3, 2, TernaryOne, NoiseFew)
    \/ nops < MaxOps
       /\ \E xy \in {<< 1, 2 >>, << 3, 2 >>, << 2, 3 >>} : add(1, xy[1], xy[2], 3)
    \/ nops < MaxOps
       /\ \E xy \in {<< 1, 2 >>, << 3, 2 >>, << 2, 3 >>} : sub(1, xy[1], xy[2], 3)
    \/ nops < MaxOps /\ \E x \in {1, 3} : negate(1, x, 3)
    \/ nops > 0 /\ ~prov.pt[3].dec /\ decrypt(1, 3, 3)
    \/ IsNone(out) /\ prov.pt[3].dec /\ decode(1, 3, 1)

SpecChain == Init /\ [][NextChain]_vars

----------------------------------------------------------------------------
(* Repeated key generation on instance 1.                                   *)

NextKeys ==
    \/ key_generation(1, TernaryFew, UniformFew, NoiseFew)
    \/ generate_relin_key(1, UniformFew, NoiseFew)
    \/ \E rotations \in {None, Some({1})} :
          generate_rotation_keys(1, rotations, UniformFew, NoiseFew)

SpecKeys == Init /\ [][NextKeys]_vars

----------------------------------------------------------------------------
(* Every evaluation operation of instance 1 on ciphertexts of instances 1   *)
(* and 2, whose params differ: ct[1] and ct[2] are fresh, ct[3] holds the   *)
(* results.                                                                 *)

NextSizes ==
    \/ \E i \in {1, 2} :
          IsNone(scheme[i].secret_key)
          /\ key_generation(i, TernaryOne, UniformFew, NoiseOne)
    \/ IsNone(scheme[1].relin_key) /\ generate_relin_key(1, UniformFew, NoiseOne)
    \/ \E i \in {1, 2}, v \in MixValues : IsNone(pt[i]) /\ encode(i, v, i)
    \/ \E i \in {1, 2} : IsNone(ct[i]) /\ encrypt(i, i, i, TernaryOne, NoiseOne)
    \/ nops < MaxOps
       /\ \E xy \in {<< 1, 2 >>, << 2, 1 >>, << 1, 3 >>, << 3, 2 >>} :
             add(1, xy[1], xy[2], 3)
    \/ nops < MaxOps
       /\ \E xy \in {<< 1, 2 >>, << 2, 1 >>, << 1, 3 >>, << 3, 2 >>} :
             sub(1, xy[1], xy[2], 3)
    \/ nops < MaxOps
       /\ \E xy \in {<< 1, 2 >>, << 2, 1 >>, << 2, 3 >>} :
             multiply(1, xy[1], xy[2], 3)
    \/ nops < MaxOps /\ relinearize(1, 3, 3)
    \/ nops < MaxOps /\ \E x \in {2, 3} : multiply_plain(1, x, 1, 3)
    \/ nops < MaxOps /\ \E x \in {2, 3} : negate(1, x, 3)

SpecSizes == Init /\ [][NextSizes]_vars

----------------------------------------------------------------------------
(* Claims.                                                                  *)

\* q mod t: delta * t falls short of q by this much
QModT(i) == params(i).q % params(i).t

\* the integer behind a scalar input, and the two inputs of a binary result
ValOf(d) == d.values.vals[1]
IntAdd(a, b) == [k \in 1..Len(a) |-> a[k] + b[k]]
IntSub(a, b) == [k \in 1..Len(a) |-> a[k] - b[k]]

C3_AddAsStated ==
    (/\ last.op = "decode" /\ prov.out.kind = "add" /\ prov.out.dec
     /\ 2 * InfNorm(IntAdd(prov.out.src[1].noise, prov.out.src[2].noise)) < delta(1))
    => The(out) = Scalar((ValOf(prov.out.src[1]) + ValOf(prov.out.src[2])) % t)

\* C4 as stated: the decoded difference of two fresh encryptions is
\* (v1 - v2) mod t
C4_SubAsStated ==
    (last.op = "decode" /\ prov.out.kind = "sub" /\ prov.out.dec)
    => The(out) = Scalar((ValOf(prov.out.src[1]) - ValOf(prov.out.src[2])) % t)

\* C3 as amended: the same, whenever the infinity norm of the summed noise
\* is below delta/2 - (q mod t)
C3_Add ==
    (/\ last.op = "decode" /\ prov.out.kind = "add" /\ prov.out.dec
     /\ 2 * (InfNorm(IntAdd(prov.out.src[1].noise, prov.out.src[2].noise))
             + QModT(1)) < delta(1))
    => The(out) = Scalar((ValOf(prov.out.src[1]) + ValOf(prov.out.src[2])) % t)

\* a decoded sum of a negative and a positive value whose plaintext sum
\* wrapped around t, under nonzero noise
C3_Witness ==
    /\ last.op = "decode" /\ prov.out.kind = "add" /\ prov.out.dec
    /\ 2 * (InfNorm(IntAdd(prov.out.src[1].noise, prov.out.src[2].noise))
            + QModT(1)) < delta(1)
    /\ InfNorm(IntAdd(prov.out.src[1].noise, prov.out.src[2].noise)) > 0
    /\ prov.out.src[1].m[1] + prov.out.src[2].m[1] >= t
    /\ ValOf(prov.out.src[1]) < 0
    /\ ValOf(prov.out.src[2]) > 0

\* C4 as amended: the decoded difference is (v1 - v2) mod t whenever the
\* infinity norm of the noise difference is below delta/2 - (q mod t); it is
\* then 0 exactly when v1 and v2 are congruent mod t
C4_Sub ==
    (/\ last.op = "decode" /\ prov.out.kind = "sub" /\ prov.out.dec
     /\ 2 * (InfNorm(IntSub(prov.out.src[1].noise, prov.out.src[2].noise))
             + QModT(1)) < delta(1))
    => /\ The(out) = Scalar((ValOf(prov.out.src[1]) - ValOf(prov.out.src[2])) % t)
       /\ (The(out) = Scalar(0))
            <=> (ValOf(prov.out.src[1]) % t = ValOf(prov.out.src[2]) % t)

\* a decoded difference of a value below t and a larger value, at least t,
\* under nonzero noise
C4_Witness ==
    /\ last.op = "decode" /\ prov.out.kind = "sub" /\ prov.out.dec
    /\ 2 * (InfNorm(IntSub(prov.out.src[1].noise, prov.out.src[2].noise))
            + QModT(1)) < delta(1)
    /\ InfNorm(IntSub(prov.out.src[1].noise, prov.out.src[2].noise)) > 0
    /\ ValOf(prov.out.src[2]) >= t
    /\ ValOf(prov.out.src[1]) < ValOf(prov.out.src[2])
    /\ ValOf(prov.out.src[1]) > 0

C6_PlainAsStated ==
    (last.op = "decode" /\ prov.out.kind = "multiply_plain" /\ prov.out.dec)
    => The(out) = Scalar((ValOf(prov.out.src[1]) * ValOf(prov.out.src[2])) % t)

\* C5: with all keys generated, the decoded relinearized product of two
\* fresh encryptions of v1 and v2 with |v1 * v2| < t/2 is (v1 * v2) mod t
C5_Multiply ==
    (/\ last.op = "decode" /\ prov.out.kind = "relin_multiply" /\ prov.out.dec
     /\ 2 * Abs(ValOf(prov.out.src[1]) * ValOf(prov.out.src[2])) < t)
    => The(out) = Scalar((ValOf(prov.out.src[1]) * ValOf(prov.out.src[2])) % t)

\* the noise of multiply_plain(encrypt(m), w): w * noise over the integers,
\* less (q mod t) for every multiple of t in the coefficients of m * w
PlainProductNoise(i, d, w) ==
    LET n == params(i).N
        wn == NegacyclicInt(d.noise, w.m, n)
        mw == NegacyclicInt(d.m, w.m, n)
    IN  [k \in 1..n |-> wn[k] - QModT(i) * (mw[k] \div params(i).t)]

\* C6 as amended: the decoded product is (v * w) mod t whenever the noise of
\* the product has infinity norm below delta/2 - (q mod t); multiply_plain
\* returns a ciphertext of the size of its input
C6_Plain ==
    /\ (/\ last.op = "decode" /\ prov.out.kind = "multiply_plain" /\ prov.out.dec
        /\ 2 * (InfNorm(PlainProductNoise(1, prov.out.src[1], prov.out.src[2]))
                 + QModT(1)) < delta(1))
       => The(out) = Scalar((ValOf(prov.out.src[1]) * ValOf(prov.out.src[2])) % t)
    /\ (last.op = "multiply_plain" /\ ~last.raised)
       => /\ The(last.result).size = last.args[1].size
          /\ Len(The(last.result).components) = Len(last.args[1].components)

\* a decoded plaintext product of two values that are not 0 or 1 mod t, the
\* product exceeding t, under nonzero noise
C6_Witness ==
    /\ last.op = "decode" /\ prov.out.kind = "multiply_plain" /\ prov.out.dec
    /\ 2 * (InfNorm(PlainProductNoise(1, prov.out.src[1], prov.out.src[2]))
             + QModT(1)) < delta(1)
    /\ InfNorm(prov.out.src[1].noise) > 0
    /\ prov.out.src[1].m[1] * prov.out.src[2].m[1] > t
    /\ The(out) # Scalar(0)

\* C1: multiply of two size-2 ciphertexts returns a ciphertext of size 3;
\* multiply raises and returns nothing when either operand has another size;
\* relinearize of a size-3 ciphertext, the relinearization key being
\* generated, returns a ciphertext of size 2
C1_Sizes ==
    /\ last.op = "multiply"
       => IF last.args[1].size = 2 /\ last.args[2].size = 2
          THEN /\ ~last.raised
               /\ The(last.result).size = 3
               /\ Len(The(last.result).components) = 3
          ELSE last.raised /\ IsNone(last.result)
    /\ (/\ last.op = "relinearize" /\ last.args[1].size = 3
        /\ IsSome(scheme[last.inst].relin_key))
       => /\ ~last.raised
          /\ The(last.result).size = 2
          /\ Len(The(last.result).components) = 2

\* a multiply refused because its second operand alone is a size-3 product
C1_Witness ==
    /\ last.op = "multiply" /\ last.raised
    /\ last.args[1].size = 2 /\ last.args[2].size = 3
    /\ nops = 1

\* C7: decode(encode(v), len(v)) returns v for every scalar or array v whose
\* entries have magnitude below t/2
C7_SignedRoundTrip ==
    (/\ last.op = "decode" /\ prov.out.kind = "encode"
     /\ last.args[2] = Len(prov.out.src[1].values.vals)
     /\ \A k \in 1..Len(prov.out.src[1].values.vals) :
            2 * Abs(prov.out.src[1].values.vals[k]) < params(3).t)
    => The(out).vals = prov.out.src[1].values.vals

\* C8: encode of a scalar or of an array of at most N/2 values returns N
\* coefficients, the k-th being the k-th value mod t and the others 0; an
\* array of more than N/2 values raises and returns nothing
C8_EncodeLayout ==
    last.op = "encode"
    => LET v == last.args[1]
           k == Len(v.vals)
       IN  IF v.kind = "list" /\ 2 * k > params(last.inst).N
           THEN last.raised /\ IsNone(last.result) /\ IsNone(pt[1])
           ELSE /\ ~last.raised
                /\ The(last.result) = The(pt[1])
                /\ Len(The(pt[1]).poly) = params(last.inst).N
                /\ \A j \in 1..params(last.inst).N :
                      /\ The(pt[1]).poly[j] \in 0..(params(last.inst).t - 1)
                      /\ j <= k => (The(pt[1]).poly[j] - v.vals[j]) % params(last.inst).t = 0
                      /\ j > k => The(pt[1]).poly[j] = 0

\* an accepted array of exactly N/2 values, one of them negative
C8_Witness ==
    /\ last.op = "encode" /\ ~last.raised
    /\ last.args[1].kind = "list"
    /\ 2 * Len(last.args[1].vals) = params(3).N
    /\ last.args[1].vals[2] < 0
    /\ The(pt[1]).poly[2] > 0

\* C9: without keys generated, encrypt, decrypt, generate_relin_key and
\* generate_rotation_keys raise; without a relinearization key, relinearize
\* raises; each such call leaves the four key fields unchanged
C9_MissingKey ==
    [][/\ (/\ last'.op \in {"encrypt", "decrypt", "generate_relin_key",
                            "generate_rotation_keys"}
           /\ IsNone(scheme[last'.inst].secret_key)
           /\ IsNone(scheme[last'.inst].public_key))
          => (last'.raised /\ scheme' = scheme)
       /\ (last'.op = "relinearize" /\ IsNone(scheme[last'.inst].relin_key))
          => (last'.raised /\ scheme' = scheme)]_vars

\* decrypt of a size-2 ciphertext of instance 2 refused by instance 1, which
\* has no keys
C9_Witness ==
    /\ last.op = "decrypt" /\ last.inst = 1 /\ last.raised
    /\ last.args[1].size = 2
    /\ IsNone(scheme[1].secret_key)
    /\ IsSome(scheme[2].secret_key)

\* C10: add and sub raise when their operands carry different parameters
C10_ParamMismatch ==
    (/\ last.op \in {"add", "sub"}
     /\ last.args[1].params # last.args[2].params)
    => last.raised /\ IsNone(last.result)

\* component k of a ciphertext, the zero polynomial where it has none
ComponentOrZero(c, k) ==
    IF k <= Len(c.components) THEN c.components[k] ELSE ZeroPoly(c.params.N)

\* C11: add and sub of ciphertexts of sizes k1 and k2 return max(k1, k2)
\* components, component i being (ct1_i + ct2_i) mod q, resp.
\* (ct1_i - ct2_i) mod q, with a missing component taken as zero
C11_MixedSizes ==
    (last.op \in {"add", "sub"} /\ ~last.raised)
    => LET c1 == last.args[1]
           c2 == last.args[2]
           res == The(last.result)
           q == params(last.inst).q
           larger == IF c1.size >= c2.size THEN c1.size ELSE c2.size
       IN  /\ res.size = larger
           /\ Len(res.components) = larger
           /\ \A k \in 1..larger :
                 res.components[k] =
                    IF last.op = "add"
                    THEN PolyAdd(ComponentOrZero(c1, k), ComponentOrZero(c2, k), q)
                    ELSE PolySub(ComponentOrZero(c1, k), ComponentOrZero(c2, k), q)

\* a sub whose first operand is the shorter one and whose second operand
\* has a nonzero third component
C11_Witness ==
    /\ last.op = "sub" /\ ~last.raised
    /\ last.args[1].size = 2 /\ last.args[2].size = 3
    /\ last.args[2].components[3] # ZeroPoly(N)
    /\ The(last.result).components[3] # last.args[2].components[3]

\* C12: with a relinearization key generated, relinearize of a ciphertext
\* of a size other than 3 raises
C12_RelinRejects ==
    (/\ last.op = "relinearize"
     /\ IsSome(scheme[last.inst].relin_key)
     /\ last.args[1].size # 3)
    => last.raised /\ IsNone(last.result)

\* C13: with a secret key generated, decrypt of a size-3 ciphertext returns
\* the rounding of c0 + c1*s + c2*s^2 mod q
C13_DecryptSize3 ==
    (/\ last.op = "decrypt"
     /\ IsSome(scheme[last.inst].secret_key)
     /\ last.args[1].size = 3)
    => /\ ~last.raised
       /\ LET i == last.inst
              n == params(i).N
              q == params(i).q
              s == The(scheme[i].secret_key)
              c == last.args[1].components
              v == PolyAdd(PolyAdd(c[1], PolyMul(c[2], s, n, q), q),
                           PolyMul(c[3], PolyMul(s, s, n, q), n, q), q)
          IN  The(last.result).poly =
                 [k \in 1..n |-> RoundHalfEven(v[k], delta(i)) % params(i).t]

\* C14: constructing a scheme raises for every N that is not a power of two,
\* N = 0 included, and succeeds for every power of two N >= 1
C14_PowerOfTwo ==
    (last.op = "__init__" /\ Len(last.args) = 3)
    => (last.raised <=> ~(\E k \in 0..last.args[1] : Pow2(k) = last.args[1]))

\* C15: each of encrypt, decrypt, add, sub, multiply, relinearize,
\* multiply_plain and negate returns an object created by the call, distinct
\* from each of its inputs
C15_FreshObjects ==
    (/\ last.op \in {"encrypt", "decrypt", "add", "sub", "multiply",
                     "relinearize", "multiply_plain", "negate"}
     /\ ~last.raised)
    => last.same = 0

\* the exact product x * y mod q, the sum x + y mod q and -x mod q of
\* residues given by their digits
ExactMulQ(x, y) == FoldQ(Normalize(MulRaw(x, y), Len(x) + Len(y)))
ExactAddQ(x, y) ==
    FoldQ(Normalize([k \in 1..QDigits |-> x[k] + y[k]], QDigits + 1))
ExactNegQ(x) == FoldQ([k \in 1..QDigits |-> Base - 1 - x[k]])

\* the sum over i = lo..hi of a_i * b_(k-i) mod q, exactly
RECURSIVE ExactConv(_, _, _, _, _)
ExactConv(a, b, k, lo, hi) ==
    IF lo > hi THEN [j \in 1..QDigits |-> 0]
    ELSE ExactAddQ(ExactMulQ(a[lo], b[k + 2 - lo]), ExactConv(a, b, k, lo + 1, hi))

\* C16: coefficient k of mul(a, b) is (sum over i+j=k of a_i*b_j minus sum
\* over i+j=k+N of a_i*b_j) mod q, as the exact mathematical value
C16_ExactProduct ==
    last.op = "mul"
    => LET a == last.args[1]
           b == last.args[2]
           n == Len(a)
       IN  \A k \in 0..(n - 1) :
              The(last.result)[k + 1] =
                 ExactAddQ(ExactConv(a, b, k, 1, k + 1),
                           ExactNegQ(ExactConv(a, b, k + n, k + 2, n)))

\* a polynomial of instance i in canonical form: N coefficients in [0, q)
Canonical(p, i) ==
    /\ Len(p) = params(i).N
    /\ \A k \in 1..Len(p) : p[k] \in 0..(params(i).q - 1)

\* C17: every component of every ciphertext held and of the public key,
\* the relinearization key and the rotation keys has N coefficients, each
\* in [0, q)
C17_CanonicalRange ==
    /\ \A r \in CtRegs :
          IsSome(ct[r])
          => \A k \in 1..Len(The(ct[r]).components) :
                Canonical(The(ct[r]).components[k], 1)
    /\ IsSome(scheme[1].public_key)
       => \A k \in 1..2 : Canonical(The(scheme[1].public_key)[k], 1)
    /\ IsSome(scheme[1].relin_key)
       => \A j \in 1..Len(The(scheme[1].relin_key)) :
             \A k \in 1..2 : Canonical(The(scheme[1].relin_key)[j][k], 1)
    /\ IsSome(scheme[1].rotation_keys)
       => \A rot \in DOMAIN The(scheme[1].rotation_keys) :
             \A k \in 1..2 : Canonical(The(scheme[1].rotation_keys)[rot][k], 1)

\* all keys generated, and ct[3] the negation of a size-3 ciphertext with a
\* nonzero third component
C17_Witness ==
    /\ IsSome(scheme[1].public_key)
    /\ IsSome(scheme[1].relin_key)
    /\ IsSome(scheme[1].rotation_keys)
    /\ last.op = "negate" /\ ~last.raised
    /\ last.args[1].size = 3
    /\ The(ct[3]).components[3] # ZeroPoly(N)

\* C18: multiply of two size-2 ciphertexts returns round(t * e_k / q) mod q
\* for the tensor e0 = c0*d0, e1 = c0*d1 + c1*d0, e2 = c1*d1 taken with
\* negacyclic products over the integers
C18_ScaleCorrection ==
    (last.op = "multiply" /\ ~last.raised)
    => LET i == last.inst
           n == params(i).N
           c == last.args[1].components
           d == last.args[2].components
           e0 == NegacyclicInt(c[1], d[1], n)
           p1 == NegacyclicInt(c[1], d[2], n)
           p2 == NegacyclicInt(c[2], d[1], n)
           e1 == [k \in 1..n |-> p1[k] + p2[k]]
           e2 == NegacyclicInt(c[2], d[2], n)
           scaled(e) == [k \in 1..n |->
                           RoundHalfEven(params(i).t * e[k], params(i).q)
                              % params(i).q]
       IN  The(last.result).components = << scaled(e0), scaled(e1), scaled(e2) >>

\* C19: decrypt of a size-2 ciphertext returns, for every coefficient of
\* v = c0 + c1*s mod q, the value round(t * center_mod(v) / q) mod t, and
\* every returned coefficient lies in [0, t)
C19_DecryptRounding ==
    (last.op = "decrypt" /\ ~last.raised)
    => LET i == last.inst
           n == params(i).N
           q == params(i).q
           s == The(scheme[i].secret_key)
           c == last.args[1].components
           v == ModCenter(PolyAdd(c[1], PolyMul(c[2], s, n, q), q), q)
           w == The(last.result).poly
       IN  \A k \in 1..n :
              /\ w[k] = RoundHalfEven(params(i).t * v[k], q) % params(i).t
              /\ w[k] \in 0..(params(i).t - 1)

\* the error of the relinearization key of instance i under its secret key:
\* b' + a'*s - s^2 mod q
RelinKeyError(i) ==
    LET n == params(i).N
        q == params(i).q
        s == The(scheme[i].secret_key)
        evk == The(scheme[i].relin_key)[1]
    IN  PolySub(PolyAdd(evk[1], PolyMul(evk[2], s, n, q), q), PolyMul(s, s, n, q), q)

Phase(i, s, c) ==
    PolyAdd(c.components[1],
            PolyMul(c.components[2], s, params(i).N, params(i).q), params(i).q)

\* delta*m + e mod q for an integer combination m with accumulated noise e
ScaledPlusNoise(i, h) ==
    [k \in 1..Len(h.m) |-> (delta(i) * h.m[k] + h.noise[k]) % params(i).q]

\* the accumulated noise less (q mod t) for every multiple of t in m
WrappedNoise(i, h) ==
    [k \in 1..Len(h.m) |-> h.noise[k] - QModT(i) * (h.m[k] \div params(i).t)]

\* every ciphertext derived by add, sub and negate from fresh encryptions
\* under the current key has size 2 and phase delta*m + e mod q
ChainPhase ==
    \A r \in CtRegs :
       (/\ IsSome(ct[r]) /\ Trackable(prov.ct[r])
        /\ LinOf(prov.ct[r]).sk = scheme[1].secret_key)
       => /\ The(ct[r]).size = 2
          /\ Len(The(ct[r]).components) = 2
          /\ Phase(1, The(scheme[1].secret_key), The(ct[r]))
                = ScaledPlusNoise(1, LinOf(prov.ct[r]))

\* C21 as stated: such a ciphertext has size 2 and phase delta*m + e, and
\* decrypts and decodes to the combination mod t whenever the accumulated
\* noise e has infinity norm below delta/2
C21_ChainAsStated ==
    /\ ChainPhase
    /\ (/\ last.op = "decode" /\ Trackable(prov.out) /\ prov.out.dec
        /\ 2 * InfNorm(LinOf(prov.out).noise) < delta(1))
       => The(out) = Scalar(ValOf(LinOf(prov.out)) % t)

\* C21 as amended: the same, with the decoded value guaranteed whenever
\* e - (q mod t) * floor(m / t) has infinity norm below delta/2 and
\* q mod t is at most delta/2
C21_Chain ==
    /\ ChainPhase
    /\ (/\ last.op = "decode" /\ Trackable(prov.out) /\ prov.out.dec
        /\ 2 * InfNorm(WrappedNoise(1, LinOf(prov.out))) < delta(1)
        /\ 2 * QModT(1) <= delta(1))
       => The(out) = Scalar(ValOf(LinOf(prov.out)) % t)

\* a decoded chain of two operations whose combination left [0, t), under
\* nonzero accumulated noise within the amended bound
C21_Witness ==
    /\ last.op = "decode" /\ prov.out.kind = "linear" /\ prov.out.dec
    /\ nops = MaxOps
    /\ 2 * InfNorm(WrappedNoise(1, LinOf(prov.out))) < delta(1)
    /\ InfNorm(LinOf(prov.out).noise) > 0
    /\ LinOf(prov.out).m[1] \div t # 0
    /\ The(out) = Scalar(ValOf(LinOf(prov.out)) % t)

\* a key pair (b, a) of instance 1 hides target under the current secret
\* key: b + a*s - target mod q, centred, is within the noise bound
HidesUnderKey(pair, target) ==
    LET n == params(1).N
        q == params(1).q
        s == The(scheme[1].secret_key)
    IN  InfNorm(ModCenter(PolySub(PolyAdd(pair[1], PolyMul(pair[2], s, n, q), q),
                                  [k \in 1..n |-> target[k] % q], q), q))
           <= noise_bound

\* C22: whenever the public key, the relinearization key or the rotation
\* keys are set, they are consistent with the current secret key s:
\* b + a*s + e = 0, b' + a'*s = s^2 + e' and b_r + a_r*s = roll(s, r) + e_r
\* mod q with errors within the noise bound
C22_KeyConsistency ==
    LET n == params(1).N
        q == params(1).q
        s == The(scheme[1].secret_key)
    IN  /\ IsSome(scheme[1].public_key)
           => HidesUnderKey(The(scheme[1].public_key), ZeroPoly(n))
        /\ IsSome(scheme[1].relin_key)
           => HidesUnderKey(The(scheme[1].relin_key)[1], PolyMul(s, s, n, q))
        /\ IsSome(scheme[1].rotation_keys)
           => \A rot \in DOMAIN The(scheme[1].rotation_keys) :
                 HidesUnderKey(The(scheme[1].rotation_keys)[rot], Roll(s, rot))

\* the operations that turn ciphertexts into ciphertexts
EvalOps == {"add", "sub", "multiply", "relinearize", "multiply_plain", "negate"}

\* C23: every ciphertext held has size 2 or 3 and a size field equal to the
\* number of its components, and the result of add, sub, multiply,
\* relinearize, multiply_plain and negate carries the params of the first
\* ciphertext operand of the call
C23_SizesAndParams ==
    /\ \A r \in CtRegs :
          IsSome(ct[r])
          => /\ The(ct[r]).size \in {2, 3}
             /\ The(ct[r]).size = Len(The(ct[r]).components)
    /\ (last.op \in EvalOps /\ ~last.raised)
       => /\ The(last.result).params = last.args[1].params
          /\ The(last.result).size \in {2, 3}
          /\ The(last.result).size = Len(The(last.result).components)

\* an addition of a fresh ciphertext and a size-3 product whose params
\* differ, giving a size-3 ciphertext
C23_Witness ==
    /\ last.op = "add" /\ ~last.raised
    /\ last.args[1].size = 2 /\ last.args[2].size = 3
    /\ last.args[1].params # last.args[2].params
    /\ The(last.result).size = 3
    /\ ct[3] = last.result

====
